---- MODULE Spec2Model ----
(***************************************************************************)
(* cross_thread_limited_fifo_t (src/concurrency/queue/                     *)
(* cross_thread_limited_fifo.hpp): a bounded queue pushed to from a fixed  *)
(* source thread and popped on its home thread.                            *)
(*                                                                         *)
(* The object's fields are the variables below.  Closures handed to        *)
(* do_on_thread are messages in flight: toHome holds the do_pusher_t       *)
(* closures (each carries its value), toSource counts the do_done_caller_t *)
(* closures.  adjustable_semaphore_t, drain_semaphore_t, do_on_thread and  *)
(* on_thread_t are not part of the file; they are modelled from their      *)
(* contracts (trickle fraction 0, the constructor's default).              *)
(*                                                                         *)
(* rassert is a debug assertion: rassert_on says whether the build keeps   *)
(* it.  A failed rassert aborts the process (fatal # "none"); nothing runs *)
(* afterwards.  A wrong-thread push is modelled only where rassert is      *)
(* compiled in; without it the call is a data race on the semaphores.      *)
(***************************************************************************)
EXTENDS Integers, Sequences, FiniteSets, TLC

\* ---------------------------------------------------------------- bounds
MaxPush == 3
MaxCap == 2

\* two values tell any loss, duplication or reordering apart
Values == {"A", "B"}
Threads == {"home", "source", "other"}

VARIABLES
    rassert_on,        \* build keeps rassert (debug) or elides it (release)
    fatal,             \* "none", or the function whose rassert aborted
    source_thread,     \* line 75
    in_destructor,     \* line 78
    queue,             \* line 79
    available,         \* available_control, line 80
    sem_capacity,      \* semaphore: its bound
    sem_current,       \* semaphore: slots held
    drain_count,       \* drain_semaphore: units acquired and not released
    drain_home,        \* drain_semaphore: thread set by the last rethread
    toHome,            \* do_pusher_t closures posted to the home thread
    toSource,          \* do_done_caller_t closures posted to the source thread
    push_pc,           \* position of the push call: idle, co_lock, post
    push_val,          \* its argument
    push_thread,       \* thread the last push was called from
    sc_pc,             \* position of set_capacity: idle, to_source, to_caller
    sc_n,              \* its argument
    sc_caller,         \* thread it was called from
    dtor_pc,           \* position of the destructor
    dtor_n,            \* number_times_to_release_drain_semaphore
    dtor_i,            \* loop counter i
    pushed,            \* history: values passed to push, in call order
    popped,            \* history: values returned by produce_next_value
    capacity_changed,  \* history: semaphore.set_capacity has run
    exec_thread        \* history: thread that executed the latest step

vars == <<rassert_on, fatal, source_thread, in_destructor, queue, available,
          sem_capacity, sem_current, drain_count, drain_home, toHome,
          toSource, push_pc, push_val, push_thread, sc_pc, sc_n, sc_caller,
          dtor_pc, dtor_n, dtor_i, pushed, popped, capacity_changed,
          exec_thread>>

home_thread == "home"

\* --------------------------------------------- where each piece of code runs
\* line 29: drain_semaphore.rethread(source_thread)
ctor_rethread_home == home_thread
ctor_rethread == source_thread

\* line 66: do_on_thread(home_thread(), do_pusher_t(this, value))
do_pusher_on_source == source_thread
do_pusher_thread == home_thread

\* line 106: do_on_thread(source_thread, do_done_caller_t(this))
do_done_on_home == home_thread
do_done_thread == source_thread

\* line 70: on_thread_t thread_switcher(source_thread)
set_capacity_no_switch == sc_caller
set_capacity_switch_thread == source_thread

\* line 39: on_thread_t thread_switcher(source_thread)
dtor_no_switch == home_thread
dtor_switch_thread == source_thread

\* the consumer pulls on the home thread; the owner destroys the object there
consumer_thread == home_thread
owner_thread == home_thread

\* ------------------------------------------------ external primitives
\* adjustable_semaphore_t with trickle fraction 0
sem_can_lock(current, capacity) == current + 1 <= capacity
sem_lock(current) == current + 1
sem_unlock(current) == current - 1
sem_set_capacity_releasing(current, n) == IF current > n THEN n ELSE current
sem_set_capacity(current, n) == current

\* drain_semaphore_t
drain_acquire(count) == count + 1
drain_release(count) == count - 1
drain_is_drained(count) == count = 0

\* passive_producer_t / availability_control_t
set_available_stale(q) == TRUE
set_available(q) == q # <<>>

\* std::list
push_front(q, v) == <<v>> \o q
push_back(q, v) == Append(q, v)
front(q) == Head(q)
pop_front(q) == Tail(q)

\* ------------------------------------------------------------ constructor
Init ==
    /\ rassert_on \in BOOLEAN
    /\ fatal = "none"
    /\ source_thread = "source"
    /\ in_destructor = FALSE
    /\ queue = <<>>
    /\ available = FALSE
    /\ sem_capacity \in 1..MaxCap
    /\ sem_current = 0
    /\ drain_count = 0
    /\ drain_home = ctor_rethread
    /\ toHome = <<>>
    /\ toSource = 0
    /\ push_pc = "idle"
    /\ push_val = "A"
    /\ push_thread = "none"
    /\ sc_pc = "idle"
    /\ sc_n = 1
    /\ sc_caller = "home"
    /\ dtor_pc = "none"
    /\ dtor_n = 0
    /\ dtor_i = 0
    /\ pushed = <<>>
    /\ popped = <<>>
    /\ capacity_changed = FALSE
    /\ exec_thread = home_thread

Running == fatal = "none"

\* ------------------------------------------------------------------ push
Push_AssertLate(t, v) ==
    /\ Running
    /\ exec_thread' = t
    /\ push_pc = "idle"
    /\ push_thread' = t
    /\ drain_count' = drain_acquire(drain_count)
    /\ IF t # source_thread
       THEN /\ rassert_on
            /\ fatal' = "push"
            /\ UNCHANGED <<push_pc, push_val, pushed>>
       ELSE /\ push_pc' = "co_lock"
            /\ push_val' = v
            /\ pushed' = Append(pushed, v)
            /\ UNCHANGED fatal
    /\ UNCHANGED <<rassert_on, source_thread, in_destructor, queue, available,
                   sem_capacity, sem_current, drain_home, toHome, toSource,
                   sc_pc, sc_n, sc_caller, dtor_pc, dtor_n, dtor_i, popped,
                   capacity_changed>>

\* push, lines 62-63: the thread check, then drain_semaphore.acquire()
Push(t, v) ==
    /\ Running
    /\ exec_thread' = t
    /\ push_pc = "idle"
    /\ push_thread' = t
    /\ IF t # source_thread
       THEN /\ rassert_on
            /\ fatal' = "push"
            /\ UNCHANGED <<drain_count, push_pc, push_val, pushed>>
       ELSE /\ drain_count' = drain_acquire(drain_count)
            /\ push_pc' = "co_lock"
            /\ push_val' = v
            /\ pushed' = Append(pushed, v)
            /\ UNCHANGED fatal
    /\ UNCHANGED <<rassert_on, source_thread, in_destructor, queue, available,
                   sem_capacity, sem_current, drain_home, toHome, toSource,
                   sc_pc, sc_n, sc_caller, dtor_pc, dtor_n, dtor_i, popped,
                   capacity_changed>>

PushLock_NoLock ==
    /\ Running
    /\ exec_thread' = push_thread
    /\ push_pc = "co_lock"
    /\ push_pc' = "post"
    /\ UNCHANGED <<rassert_on, fatal, source_thread, in_destructor, queue,
                   available, sem_capacity, sem_current, drain_count,
                   drain_home, toHome, toSource, push_val, push_thread, sc_pc,
                   sc_n, sc_caller, dtor_pc, dtor_n, dtor_i, pushed, popped,
                   capacity_changed>>

\* push, line 64: semaphore.co_lock() returns once a slot is free
PushLock ==
    /\ Running
    /\ exec_thread' = push_thread
    /\ push_pc = "co_lock"
    /\ sem_can_lock(sem_current, sem_capacity)
    /\ sem_current' = sem_lock(sem_current)
    /\ push_pc' = "post"
    /\ UNCHANGED <<rassert_on, fatal, source_thread, in_destructor, queue,
                   available, sem_capacity, drain_count, drain_home, toHome,
                   toSource, push_val, push_thread, sc_pc, sc_n, sc_caller,
                   dtor_pc, dtor_n, dtor_i, pushed, popped, capacity_changed>>

\* push, lines 66-67: do_on_thread(home_thread(), do_pusher_t(this, value)),
\* and push returns
PushPost ==
    /\ Running
    /\ exec_thread' = push_thread
    /\ push_pc = "post"
    /\ toHome' = Append(toHome, push_val)
    /\ push_pc' = "idle"
    /\ push_val' = "A"
    /\ UNCHANGED <<rassert_on, fatal, source_thread, in_destructor, queue,
                   available, sem_capacity, sem_current, drain_count,
                   drain_home, toSource, push_thread, sc_pc, sc_n,
                   sc_caller, dtor_pc, dtor_n, dtor_i, pushed, popped,
                   capacity_changed>>

\* ---------------------------------------------------------------- do_push
\* the posted do_pusher_t runs on the home thread
DoPush ==
    /\ Running
    /\ exec_thread' = do_pusher_thread
    /\ toHome # <<>>
    /\ IF in_destructor /\ rassert_on
       THEN /\ fatal' = "do_push"
            /\ UNCHANGED <<queue, available, toHome>>
       ELSE /\ queue' = push_back(queue, Head(toHome))
            /\ available' = set_available(queue')
            /\ toHome' = Tail(toHome)
            /\ UNCHANGED fatal
    /\ UNCHANGED <<rassert_on, source_thread, in_destructor, sem_capacity,
                   sem_current, drain_count, drain_home, toSource, push_pc,
                   push_val, push_thread, sc_pc, sc_n, sc_caller, dtor_pc,
                   dtor_n, dtor_i, pushed, popped, capacity_changed>>

\* ---------------------------------------------------------------- do_done
DoDone_NoRelease ==
    /\ Running
    /\ exec_thread' = do_done_thread
    /\ toSource > 0
    /\ toSource' = toSource - 1
    /\ sem_current' = sem_unlock(sem_current)
    /\ UNCHANGED <<rassert_on, fatal, source_thread, in_destructor, queue,
                   available, sem_capacity, drain_count, drain_home, toHome,
                   push_pc, push_val, push_thread, sc_pc, sc_n, sc_caller,
                   dtor_pc, dtor_n, dtor_i, pushed, popped, capacity_changed>>

DoDone_NoUnlock ==
    /\ Running
    /\ exec_thread' = do_done_thread
    /\ toSource > 0
    /\ toSource' = toSource - 1
    /\ drain_count' = drain_release(drain_count)
    /\ UNCHANGED <<rassert_on, fatal, source_thread, in_destructor, queue,
                   available, sem_capacity, sem_current, drain_home, toHome,
                   push_pc, push_val, push_thread, sc_pc, sc_n, sc_caller,
                   dtor_pc, dtor_n, dtor_i, pushed, popped, capacity_changed>>

\* the posted do_done_caller_t runs on the source thread
DoDone ==
    /\ Running
    /\ exec_thread' = do_done_thread
    /\ toSource > 0
    /\ toSource' = toSource - 1
    /\ sem_current' = sem_unlock(sem_current)
    /\ drain_count' = drain_release(drain_count)
    /\ UNCHANGED <<rassert_on, fatal, source_thread, in_destructor, queue,
                   available, sem_capacity, drain_home, toHome, push_pc,
                   push_val, push_thread, sc_pc, sc_n, sc_caller, dtor_pc,
                   dtor_n, dtor_i, pushed, popped, capacity_changed>>

\* ----------------------------------------------------- produce_next_value
\* front() and pop_front() of an empty list are undefined: any value comes
\* back and the list stays empty
ProduceNextValue ==
    /\ Running
    /\ exec_thread' = consumer_thread
    /\ IF in_destructor /\ rassert_on
       THEN /\ fatal' = "produce_next_value"
            /\ UNCHANGED <<queue, available, toSource, popped>>
       ELSE /\ IF queue # <<>>
               THEN /\ popped' = Append(popped, front(queue))
                    /\ queue' = pop_front(queue)
               ELSE /\ \E v \in Values : popped' = Append(popped, v)
                    /\ queue' = queue
            /\ toSource' = toSource + 1
            /\ available' = set_available(queue')
            /\ UNCHANGED fatal
    /\ UNCHANGED <<rassert_on, source_thread, in_destructor, sem_capacity,
                   sem_current, drain_count, drain_home, toHome, push_pc,
                   push_val, push_thread, sc_pc, sc_n, sc_caller, dtor_pc,
                   dtor_n, dtor_i, pushed, capacity_changed>>

\* ----------------------------------------------------------- set_capacity
\* line 70: on_thread_t moves the caller to the source thread
SetCapacityCall(t, n) ==
    /\ Running
    /\ exec_thread' = t
    /\ sc_pc = "idle"
    /\ sc_pc' = "to_source"
    /\ sc_n' = n
    /\ sc_caller' = t
    /\ UNCHANGED <<rassert_on, fatal, source_thread, in_destructor, queue,
                   available, sem_capacity, sem_current, drain_count,
                   drain_home, toHome, toSource, push_pc, push_val,
                   push_thread, dtor_pc, dtor_n, dtor_i, pushed, popped,
                   capacity_changed>>

\* line 71: semaphore.set_capacity(capacity), on the source thread
SetCapacityRun ==
    /\ Running
    /\ exec_thread' = set_capacity_switch_thread
    /\ sc_pc = "to_source"
    /\ sem_capacity' = sc_n
    /\ sem_current' = sem_set_capacity(sem_current, sc_n)
    /\ capacity_changed' = TRUE
    /\ sc_pc' = "to_caller"
    /\ UNCHANGED <<rassert_on, fatal, source_thread, in_destructor, queue,
                   available, drain_count, drain_home, toHome,
                   toSource, push_pc, push_val, push_thread, sc_n, sc_caller,
                   dtor_pc, dtor_n, dtor_i, pushed, popped>>

\* line 72: ~on_thread_t moves the caller back; the call's locals are gone
SetCapacityReturn ==
    /\ Running
    /\ exec_thread' = sc_caller
    /\ sc_pc = "to_caller"
    /\ sc_pc' = "idle"
    /\ sc_n' = 1
    /\ sc_caller' = "home"
    /\ UNCHANGED <<rassert_on, fatal, source_thread, in_destructor, queue,
                   available, sem_capacity, sem_current, drain_count,
                   drain_home, toHome, toSource, push_pc, push_val,
                   push_thread, dtor_pc, dtor_n, dtor_i, pushed, popped,
                   capacity_changed>>

\* ------------------------------------------------------------- destructor
DtorBegin_NoCount ==
    /\ Running
    /\ exec_thread' = owner_thread
    /\ dtor_pc = "none"
    /\ in_destructor' = TRUE
    /\ dtor_n' = 0
    /\ dtor_i' = 0
    /\ dtor_pc' = "release"
    /\ UNCHANGED <<rassert_on, fatal, source_thread, queue, available,
                   sem_capacity, sem_current, drain_count, drain_home, toHome,
                   toSource, push_pc, push_val, push_thread, sc_pc, sc_n,
                   sc_caller, pushed, popped, capacity_changed>>

\* lines 36-39, on the home thread: the flag, the size, the thread switch
DtorBegin ==
    /\ Running
    /\ exec_thread' = owner_thread
    /\ dtor_pc = "none"
    /\ in_destructor' = TRUE
    /\ dtor_n' = Len(queue)
    /\ dtor_i' = 0
    /\ dtor_pc' = "release"
    /\ UNCHANGED <<rassert_on, fatal, source_thread, queue, available,
                   sem_capacity, sem_current, drain_count, drain_home, toHome,
                   toSource, push_pc, push_val, push_thread, sc_pc, sc_n,
                   sc_caller, pushed, popped, capacity_changed>>

\* line 44: the loop condition i < number_times_to_release_drain_semaphore
dtor_loop_off_by_one(i, n) == i <= n
dtor_loop_cond(i, n) == i < n

\* line 44, on the source thread: one turn of the loop
DtorRelease ==
    /\ Running
    /\ exec_thread' = dtor_switch_thread
    /\ dtor_pc = "release"
    /\ dtor_loop_cond(dtor_i, dtor_n)
    /\ drain_count' = drain_release(drain_count)
    /\ dtor_i' = dtor_i + 1
    /\ UNCHANGED <<rassert_on, fatal, source_thread, in_destructor, queue,
                   available, sem_capacity, sem_current, drain_home, toHome,
                   toSource, push_pc, push_val, push_thread, sc_pc, sc_n,
                   sc_caller, dtor_pc, dtor_n, pushed, popped,
                   capacity_changed>>

\* line 45: the loop is over, drain_semaphore.drain() is entered
DtorDrain ==
    /\ Running
    /\ exec_thread' = dtor_switch_thread
    /\ dtor_pc = "release"
    /\ ~dtor_loop_cond(dtor_i, dtor_n)
    /\ dtor_pc' = "drain"
    /\ UNCHANGED <<rassert_on, fatal, source_thread, in_destructor, queue,
                   available, sem_capacity, sem_current, drain_count,
                   drain_home, toHome, toSource, push_pc, push_val,
                   push_thread, sc_pc, sc_n, sc_caller, dtor_n, dtor_i,
                   pushed, popped, capacity_changed>>

DtorDrained_NoWait ==
    /\ Running
    /\ exec_thread' = dtor_switch_thread
    /\ dtor_pc = "drain"
    /\ dtor_pc' = "to_home"
    /\ UNCHANGED <<rassert_on, fatal, source_thread, in_destructor, queue,
                   available, sem_capacity, sem_current, drain_count,
                   drain_home, toHome, toSource, push_pc, push_val,
                   push_thread, sc_pc, sc_n, sc_caller, dtor_n, dtor_i,
                   pushed, popped, capacity_changed>>

\* lines 45-46: drain() returns once the count is zero; back to the home thread
DtorDrained ==
    /\ Running
    /\ exec_thread' = dtor_switch_thread
    /\ dtor_pc = "drain"
    /\ drain_is_drained(drain_count)
    /\ dtor_pc' = "to_home"
    /\ UNCHANGED <<rassert_on, fatal, source_thread, in_destructor, queue,
                   available, sem_capacity, sem_current, drain_count,
                   drain_home, toHome, toSource, push_pc, push_val,
                   push_thread, sc_pc, sc_n, sc_caller, dtor_n, dtor_i,
                   pushed, popped, capacity_changed>>

\* lines 47-48: drain_semaphore.rethread(home_thread()); the destructor returns
DtorReturn ==
    /\ Running
    /\ exec_thread' = owner_thread
    /\ dtor_pc = "to_home"
    /\ drain_home' = home_thread
    /\ dtor_pc' = "done"
    /\ UNCHANGED <<rassert_on, fatal, source_thread, in_destructor, queue,
                   available, sem_capacity, sem_current, drain_count, toHome,
                   toSource, push_pc, push_val, push_thread, sc_pc, sc_n,
                   sc_caller, dtor_n, dtor_i, pushed, popped,
                   capacity_changed>>

\* ------------------------------------------------------------ environment
\* The producer calls push while the object is alive, at most MaxPush times,
\* and calls it again only after the previous call has returned.
ProducerPush == \E t \in Threads, v \in Values :
    /\ ~in_destructor
    /\ Len(pushed) < MaxPush
    /\ Push(t, v)

\* The consumer calls produce_next_value on the home thread when the
\* availability signal is true, and has gone away when destruction starts.
ConsumerPull ==
    /\ ~in_destructor
    /\ available
    /\ ProduceNextValue

\* set_capacity is called from any thread while the object is alive.
CallSetCapacity == \E t \in Threads, n \in 0..MaxCap :
    /\ ~in_destructor
    /\ SetCapacityCall(t, n)

\* The owner destroys the object when no call on it is in progress.
Destroy ==
    /\ push_pc = "idle"
    /\ sc_pc = "idle"
    /\ DtorBegin

Next ==
    \/ ProducerPush
    \/ PushLock
    \/ PushPost
    \/ DoPush
    \/ ConsumerPull
    \/ DoDone
    \/ CallSetCapacity
    \/ SetCapacityRun
    \/ SetCapacityReturn
    \/ Destroy
    \/ DtorRelease
    \/ DtorDrain
    \/ DtorDrained
    \/ DtorReturn

Spec == Init /\ [][Next]_vars

\* Posted closures are delivered, thread switches complete, a coroutine that
\* can run does run.  The calls of the environment are under no obligation.
Fairness ==
    /\ WF_vars(PushLock)
    /\ WF_vars(PushPost)
    /\ WF_vars(DoPush)
    /\ WF_vars(DoDone)
    /\ WF_vars(SetCapacityRun)
    /\ WF_vars(SetCapacityReturn)
    /\ WF_vars(DtorRelease)
    /\ WF_vars(DtorDrain)
    /\ WF_vars(DtorDrained)
    /\ WF_vars(DtorReturn)

FairSpec == Spec /\ Fairness

\* A life without teardown: pushes from the source thread, a capacity kept
\* at 1 or more, and a consumer that pulls whenever the signal is true.  No
\* rassert can fail in such a life, so one build stands for both.
InitLive == Init /\ rassert_on

SourcePush == \E v \in Values :
    /\ Len(pushed) < MaxPush
    /\ Push(source_thread, v)

CallSetCapacityPositive == \E t \in Threads, n \in 1..MaxCap :
    SetCapacityCall(t, n)

NextLive ==
    \/ SourcePush
    \/ PushLock
    \/ PushPost
    \/ DoPush
    \/ ConsumerPull
    \/ DoDone
    \/ CallSetCapacityPositive
    \/ SetCapacityRun
    \/ SetCapacityReturn

LiveSpec ==
    /\ InitLive
    /\ [][NextLive]_vars
    /\ WF_vars(PushLock)
    /\ WF_vars(PushPost)
    /\ WF_vars(DoPush)
    /\ WF_vars(ConsumerPull)
    /\ WF_vars(DoDone)
    /\ WF_vars(SetCapacityRun)
    /\ WF_vars(SetCapacityReturn)

\* ================================================================ claims
IsPrefix(s, t) == Len(s) <= Len(t) /\ SubSeq(t, 1, Len(s)) = s

\* the value of a push that has been called and has not yet posted its append
PushPending == IF push_pc = "idle" THEN <<>> ELSE <<push_val>>

\* pushes that hold a capacity slot no completion operation has released
HeldSlots == Len(toHome) + Len(queue) + toSource
             + (IF push_pc = "post" THEN 1 ELSE 0)

\* append and completion tasks posted and not yet executed
InFlight == Len(toHome) + toSource

\* C1: the values returned by produce_next_value are a prefix of the values
\* passed to push, in call order; the values not yet returned sit, in call
\* order, in the buffer, then in the posted appends, then in the push that
\* is under way: nothing is lost, duplicated or reordered.
C1_Fifo ==
    /\ IsPrefix(popped, pushed)
    /\ pushed = popped \o queue \o toHome \o PushPending

C1_Witness ==
    /\ Len(popped) >= 2
    /\ popped[1] # popped[2]
    /\ queue # <<>>

\* C2: while the capacity is the constructor's, at most `capacity` pushes
\* hold a slot; a push that finds them all held stays in co_lock and posts
\* nothing; a slot comes back only through a completion operation.
C2_Bound == ~capacity_changed => HeldSlots <= sem_capacity

C2_Suspended ==
    (push_pc = "co_lock" /\ HeldSlots >= sem_capacity /\ ~capacity_changed')
        => (push_pc' = "co_lock" /\ Len(toHome') <= Len(toHome))

C2_Released ==
    HeldSlots' < HeldSlots
        => (toSource' = toSource - 1 /\ sem_current' = sem_current - 1)

C2_Capacity == [](C2_Bound) /\ [][C2_Suspended /\ C2_Released]_vars

C2_Witness ==
    /\ ~capacity_changed
    /\ push_pc = "co_lock"
    /\ HeldSlots = sem_capacity
    /\ popped # <<>>

\* C3 as stated: acquired minus released is the buffer plus the tasks in
\* flight, in every reachable state.
C3_AsStated == drain_count = Len(queue) + InFlight

\* C3 amended: the push that holds its drain unit and has not yet posted its
\* append counts too, and the destructor's compensating releases are taken
\* off.
C3_Conservation ==
    drain_count = Len(queue) + InFlight + Len(PushPending) - dtor_i

C3_Witness ==
    /\ push_pc = "co_lock"
    /\ queue # <<>>
    /\ toSource > 0
    /\ drain_count = 3

\* C4 as stated: once the destructor has started, it returns.
C4_DtorReturns == (dtor_pc # "none") ~> (dtor_pc = "done")

\* C5: when the destructor has returned, no append task and no completion
\* task is posted and not yet executed.
C5_NothingPending == dtor_pc = "done" => (toHome = <<>> /\ toSource = 0)

C5_Witness ==
    /\ dtor_pc = "done"
    /\ popped # <<>>
    /\ Len(pushed) = MaxPush

C7_Signal == available = (queue # <<>>)

C7_PopNonEmpty == popped' # popped => queue # <<>>

C7_Availability == [](C7_Signal) /\ [][C7_PopNonEmpty]_vars

C7_Witness ==
    /\ popped # <<>>
    /\ queue = <<>>
    /\ toHome # <<>>
    /\ ~available

\* C8: set_capacity(n) with n below the number of held slots leaves the held
\* slots, the buffer and the tasks in flight as they are, and a push leaves
\* co_lock only when fewer slots are held than the bound in force.
C8_CallKeepsSlots ==
    (sc_pc = "to_source" /\ sc_pc' = "to_caller" /\ sc_n < sem_current)
        => /\ sem_capacity' = sc_n
           /\ UNCHANGED <<sem_current, queue, toHome, toSource, drain_count>>

C8_PushWaits ==
    (push_pc = "co_lock" /\ push_pc' # "co_lock")
        => (sem_current < sem_capacity /\ HeldSlots < sem_capacity)

C8_Lowering == [][C8_CallKeepsSlots /\ C8_PushWaits]_vars

C8_Witness ==
    /\ capacity_changed
    /\ sc_pc = "idle"
    /\ sem_capacity < sem_current
    /\ push_pc = "co_lock"

\* C9: every push that was called returns, and every value passed to push
\* is returned by produce_next_value.
C9_Progress ==
    /\ (push_pc # "idle") ~> (push_pc = "idle")
    /\ \A i \in 1..MaxPush : (Len(pushed) >= i) ~> (Len(popped) >= i)

C9_Witness ==
    /\ Len(popped) = MaxPush
    /\ sem_current = 0
    /\ capacity_changed

\* C10: a push called from another thread than the source thread aborts in
\* push, and the aborted call has changed neither the drain counter, nor the
\* held slots, the buffer, the availability signal or the posted tasks.
C10_Fails == push_thread \notin {"none", source_thread} => fatal = "push"

C10_Untouched ==
    fatal' = "push"
        => UNCHANGED <<drain_count, sem_current, sem_capacity, queue,
                       available, toHome, toSource, push_pc, pushed>>

C10_WrongThread == [](C10_Fails) /\ [][C10_Untouched]_vars

C10_Witness ==
    /\ fatal = "push"
    /\ push_thread = "other"
    /\ drain_count > 0
    /\ queue # <<>>

\* C11: a push takes its drain unit first, then its capacity slot, and posts
\* its append only with both in hand; co_lock is the only place where it can
\* wait; the step that posts the append leaves the buffer alone and ends the
\* call.
C11_DrainFirst ==
    drain_count' > drain_count
        => /\ push_pc = "idle" /\ push_pc' = "co_lock"
           /\ UNCHANGED <<sem_current, toHome, queue>>

C11_SlotSecond ==
    sem_current' > sem_current
        => /\ push_pc = "co_lock" /\ push_pc' = "post"
           /\ drain_count > Len(queue) + InFlight
           /\ UNCHANGED <<drain_count, toHome, queue>>

C11_PostLast ==
    Len(toHome') > Len(toHome)
        => /\ push_pc = "post" /\ push_pc' = "idle"
           /\ drain_count > Len(queue) + InFlight
           /\ sem_current > Len(queue) + InFlight
           /\ toHome' = Append(toHome, push_val)
           /\ UNCHANGED <<queue, available, drain_count, sem_current>>

C11_OnlyCoLockWaits == (Running /\ push_pc = "post") => ENABLED PushPost

C11_PushSteps ==
    /\ [][C11_DrainFirst /\ C11_SlotSecond /\ C11_PostLast]_vars
    /\ [](C11_OnlyCoLockWaits)

\* push has returned, its append has not run, the buffer is still empty
C11_Witness ==
    /\ push_pc = "idle"
    /\ pushed # <<>>
    /\ toHome = pushed
    /\ queue = <<>>
    /\ ~available

\* a step of the posted append: it takes its closure off, or aborts in do_push
DoPushStep == Len(toHome') < Len(toHome) \/ (fatal = "none" /\ fatal' = "do_push")

\* C12 as stated: every push is called before the destructor starts, so no
\* append runs with the destruction flag set.
C12_AppendBeforeFlag == [][DoPushStep => ~in_destructor]_vars

\* C13 as stated: the flag, once set, stays set, and from then on the buffer
\* and the availability signal do not change.
C13_Frozen ==
    [][in_destructor
         => (in_destructor' /\ queue' = queue /\ available' = available)]_vars

\* C14: the destructor reads k = queue.size() on the home thread in the step
\* that sets the flag, releases the drain counter one unit at a time on the
\* source thread, exactly k times before drain; with k elements buffered and
\* nothing in flight the counter is then zero and drain can return at once.
C14_ReadsSize ==
    (~in_destructor /\ in_destructor')
        => /\ dtor_n' = Len(queue)
           /\ dtor_i' = 0
           /\ exec_thread' = home_thread

C14_OneRelease ==
    dtor_i' # dtor_i
        => /\ dtor_pc = "release" /\ dtor_pc' = "release"
           /\ dtor_i < dtor_n
           /\ dtor_i' = dtor_i + 1
           /\ drain_count' = drain_count - 1
           /\ exec_thread' = source_thread

C14_ExactlyK == dtor_pc \in {"drain", "to_home", "done"} => dtor_i = dtor_n

C14_ZeroAfterK ==
    ( /\ dtor_pc \in {"release", "drain"}
      /\ dtor_i = dtor_n
      /\ Len(queue) = dtor_n
      /\ InFlight = 0 )
        => drain_count = 0

C14_DrainReturns ==
    (Running /\ dtor_pc = "drain" /\ Len(queue) = dtor_n /\ InFlight = 0)
        => ENABLED DtorDrained

C14_Compensation ==
    /\ [][C14_ReadsSize /\ C14_OneRelease]_vars
    /\ [](C14_ExactlyK /\ C14_ZeroAfterK /\ C14_DrainReturns)

C14_Witness ==
    /\ dtor_pc = "drain"
    /\ dtor_n = 2
    /\ dtor_i = 2
    /\ Len(queue) = 2
    /\ InFlight = 0
    /\ drain_count = 0

\* C15: the steps that read or write the buffer or the availability signal
\* (the append, produce_next_value, the destructor's flag-and-size step) run
\* on the home thread; a step on the source thread leaves both alone.
TouchesBuffer ==
    \/ queue' # queue
    \/ available' # available
    \/ DoPushStep
    \/ popped' # popped
    \/ (fatal = "none" /\ fatal' = "produce_next_value")
    \/ (~in_destructor /\ in_destructor')

C15_OnHome == TouchesBuffer => exec_thread' = home_thread

C15_SourceKeepsOff ==
    exec_thread' = source_thread => UNCHANGED <<queue, available>>

C15_HomeConfined == [][C15_OnHome /\ C15_SourceKeepsOff]_vars

C15_Witness ==
    /\ exec_thread = home_thread
    /\ dtor_pc = "release"
    /\ dtor_i = 0
    /\ dtor_n > 0
    /\ popped # <<>>
    /\ toSource > 0

\* C16: slots and drain units are acquired on the source thread inside push;
\* they are released on the source thread, by a completion operation or by
\* the destructor's loop; a step on the home thread changes neither count.
C16_Acquire ==
    (drain_count' > drain_count \/ sem_current' > sem_current)
        => /\ exec_thread' = source_thread
           /\ push_pc # push_pc'

C16_Release ==
    (drain_count' < drain_count \/ sem_current' < sem_current)
        => /\ exec_thread' = source_thread
           /\ \/ toSource' = toSource - 1
              \/ (dtor_pc = "release" /\ dtor_i' = dtor_i + 1)

C16_HomeKeepsOff ==
    exec_thread' = home_thread => UNCHANGED <<drain_count, sem_current>>

C16_SourceConfined == [][C16_Acquire /\ C16_Release /\ C16_HomeKeepsOff]_vars

C16_Witness ==
    /\ exec_thread = source_thread
    /\ dtor_pc = "release"
    /\ dtor_i > 0
    /\ popped # <<>>
    /\ sem_current > 0

\* C17: set_capacity, called from any thread, changes the bound in a step on
\* the source thread, ends on the thread it was called from, and changes
\* nothing but the bound.
C17_Frame ==
    UNCHANGED <<queue, available, drain_count, sem_current, in_destructor,
                toHome, toSource, drain_home>>

C17_Call ==
    (sc_pc = "idle" /\ sc_pc' = "to_source")
        => /\ exec_thread' = sc_caller'
           /\ C17_Frame
           /\ UNCHANGED sem_capacity

C17_Run ==
    (sc_pc = "to_source" /\ sc_pc' = "to_caller")
        => /\ exec_thread' = source_thread
           /\ sem_capacity' = sc_n
           /\ C17_Frame

C17_Return ==
    (sc_pc = "to_caller" /\ sc_pc' = "idle")
        => /\ exec_thread' = sc_caller
           /\ C17_Frame
           /\ UNCHANGED sem_capacity

C17_OnlyRunSets ==
    sem_capacity' # sem_capacity => (sc_pc = "to_source" /\ sc_pc' = "to_caller")

C17_SetCapacity ==
    [][C17_Call /\ C17_Run /\ C17_Return /\ C17_OnlyRunSets]_vars

C17_Witness ==
    /\ Running
    /\ sc_pc = "idle"
    /\ capacity_changed
    /\ exec_thread = "other"
    /\ sem_capacity = 0
    /\ queue # <<>>

\* C18 as stated: until the destructor starts, the drain semaphore is
\* registered to the home thread.
C18_AsStated == ~in_destructor => drain_home = home_thread

\* C18 amended: from the constructor until the destructor's last statement
\* the drain semaphore is registered to the source thread; the destructor
\* registers it to the home thread as it returns.
C18_DrainHome ==
    drain_home = IF dtor_pc = "done" THEN home_thread ELSE source_thread

C18_Witness ==
    /\ ~in_destructor
    /\ drain_home = source_thread
    /\ drain_count > 0
    /\ popped # <<>>

\* C19: every acquire, release and drain on the drain semaphore runs on the
\* thread it is registered to; it is registered anew only by the destructor,
\* to the home thread, after drain has returned with the count at zero.
DrainCall ==
    \/ drain_count' # drain_count
    \/ (dtor_pc = "release" /\ dtor_pc' = "drain")
    \/ (dtor_pc = "drain" /\ dtor_pc' = "to_home")

C19_OnRegisteredThread == DrainCall => exec_thread' = drain_home

C19_Rethread ==
    drain_home' # drain_home
        => /\ dtor_pc = "to_home" /\ dtor_pc' = "done"
           /\ drain_home' = home_thread
           /\ drain_count = 0

C19_DrainThread == [][C19_OnRegisteredThread /\ C19_Rethread]_vars

C19_Witness ==
    /\ dtor_pc = "done"
    /\ drain_home = home_thread
    /\ exec_thread = home_thread
    /\ dtor_n > 0
    /\ Len(popped) >= 2

\* C20 as stated: before destruction the held slots are the appends posted,
\* the buffer and the completions posted.
C20_AsStated == ~in_destructor => sem_current = Len(queue) + InFlight

\* C20 amended: the push that has taken its slot and not yet posted its
\* append holds one too; each produce_next_value posts one completion, each
\* completion gives back one slot and one drain unit, and no more slots are
\* given back than were taken.
C20_Equation == ~in_destructor => sem_current = HeldSlots

C20_OnePerPop == popped' # popped => toSource' = toSource + 1

C20_OnePerDone ==
    toSource' < toSource
        => /\ toSource' = toSource - 1
           /\ sem_current' = sem_current - 1
           /\ drain_count' = drain_count - 1

C20_Slots ==
    /\ [](C20_Equation /\ sem_current >= 0)
    /\ [][C20_OnePerPop /\ C20_OnePerDone]_vars

C20_Witness ==
    /\ ~in_destructor
    /\ push_pc = "post"
    /\ sem_current = 2
    /\ toSource > 0

====
